---- MODULE Spec2Model ----
(***************************************************************************)
(* Model of the PPTX-to-HTML5 conversion pipeline (src/src/converter.js)   *)
(* and of the navigation script it embeds into index.html.                 *)
(*                                                                         *)
(* Entry names are sequences of one-character strings, so that the name    *)
(* filters, the ordinal regular expression, parseInt and path.basename are *)
(* computed on the characters as the code computes them.                   *)
(***************************************************************************)
EXTENDS Integers, Sequences, FiniteSets, TLC

(***************************************************************************)
(* Bounds.                                                                 *)
(***************************************************************************)
\* largest number of entries in the archive's directory table
MaxEntries == 3

(***************************************************************************)
(* String helpers (JavaScript String.prototype / path semantics).          *)
(***************************************************************************)
Digits == <<"0", "1", "2", "3", "4", "5", "6", "7", "8", "9">>

IsDigit(c) == \E d \in 1..10 : Digits[d] = c

DigitVal(c) == (CHOOSE d \in 1..10 : Digits[d] = c) - 1

\* String.prototype.startsWith
StartsWith(s, p) ==
    /\ Len(s) >= Len(p)
    /\ SubSeq(s, 1, Len(p)) = p

\* String.prototype.endsWith
EndsWith(s, p) ==
    /\ Len(s) >= Len(p)
    /\ SubSeq(s, Len(s) - Len(p) + 1, Len(s)) = p

\* the literal p occurs in s at position i
OccursAt(s, p, i) ==
    /\ i >= 1
    /\ i + Len(p) - 1 <= Len(s)
    /\ SubSeq(s, i, i + Len(p) - 1) = p

\* end of the maximal (greedy) run of digits of s that starts at position i;
\* i - 1 when s[i] is not a digit
RECURSIVE DigitRunEnd(_, _)
DigitRunEnd(s, i) ==
    IF i <= Len(s) /\ IsDigit(s[i]) THEN DigitRunEnd(s, i + 1) ELSE i - 1

\* parseInt of a string of decimal digits
RECURSIVE ParseInt(_)
ParseInt(ds) ==
    IF ds = <<>> THEN 0
    ELSE 10 * ParseInt(SubSeq(ds, 1, Len(ds) - 1)) + DigitVal(ds[Len(ds)])

\* literals used by the code
StrSlidePrefix == <<"p","p","t","/","s","l","i","d","e","s","/","s","l","i","d","e">>
StrMediaPrefix == <<"p","p","t","/","m","e","d","i","a","/">>
StrXml == <<".","x","m","l">>
StrSlide == <<"s","l","i","d","e">>

\* relativePath.match(/slide(\d+)\.xml/): the regular expression is not
\* anchored; it matches at a position i when "slide" occurs there, followed
\* by a non-empty run of digits, followed by ".xml".  \d+ is greedy and a
\* digit never matches "\.", so only the maximal run can be followed by
\* ".xml".
MatchesAt(s, i) ==
    /\ OccursAt(s, StrSlide, i)
    /\ DigitRunEnd(s, i + 5) >= i + 5
    /\ OccursAt(s, StrXml, DigitRunEnd(s, i + 5) + 1)

NoMatch == <<"null">>

\* a match that falls back to the ordinal 0 instead of returning null
SlideRegexMatch_DefaultZero(s) ==
    IF \E i \in 1..Len(s) : MatchesAt(s, i)
    THEN LET i == CHOOSE j \in 1..Len(s) :
                     /\ MatchesAt(s, j)
                     /\ \A k \in 1..(j - 1) : ~MatchesAt(s, k)
         IN  SubSeq(s, i + 5, DigitRunEnd(s, i + 5))
    ELSE <<"0">>

\* capture group 1 of the leftmost match, or NoMatch (match() returned null)
SlideRegexMatch(s) ==
    IF \E i \in 1..Len(s) : MatchesAt(s, i)
    THEN LET i == CHOOSE j \in 1..Len(s) :
                     /\ MatchesAt(s, j)
                     /\ \A k \in 1..(j - 1) : ~MatchesAt(s, k)
         IN  SubSeq(s, i + 5, DigitRunEnd(s, i + 5))
    ELSE NoMatch

\* the filter of parsePPTX's zip.forEach callback
IsSlidePart(relativePath) ==
    /\ StartsWith(relativePath, StrSlidePrefix)
    /\ EndsWith(relativePath, StrXml)

\* the filter of extractMediaFiles' zip.forEach callback
IsMediaPart(relativePath) == StartsWith(relativePath, StrMediaPrefix)

\* path.basename (posix): trailing separators are dropped, then the part
\* after the last separator is taken
RECURSIVE StripTrailingSlashes(_)
StripTrailingSlashes(s) ==
    IF Len(s) > 1 /\ s[Len(s)] = "/"
    THEN StripTrailingSlashes(SubSeq(s, 1, Len(s) - 1))
    ELSE s

Basename(p) ==
    LET s == StripTrailingSlashes(p)
        slashes == {i \in 1..Len(s) : s[i] = "/"}
        last == IF slashes = {} THEN 0
                ELSE CHOOSE i \in slashes : \A j \in slashes : j <= i
    IN  SubSeq(s, last + 1, Len(s))

(***************************************************************************)
(* The packages the conversion is run on.  An entry is a name and its      *)
(* bytes; JSZip keys its entry table by name, so the names of one archive  *)
(* are pairwise distinct, and zip.forEach visits them in directory order.  *)
(***************************************************************************)
\* "ppt/slides/slide1.xml"
NameSlide1 == <<"p","p","t","/","s","l","i","d","e","s","/","s","l","i","d","e","1",".","x","m","l">>

\* "ppt/slides/slide2.xml"
NameSlide2 == <<"p","p","t","/","s","l","i","d","e","s","/","s","l","i","d","e","2",".","x","m","l">>

\* "ppt/slides/slide10.xml"
NameSlide10 == <<"p","p","t","/","s","l","i","d","e","s","/","s","l","i","d","e","1","0",".","x","m","l">>

\* "ppt/slides/slide01.xml"
NameSlide01 == <<"p","p","t","/","s","l","i","d","e","s","/","s","l","i","d","e","0","1",".","x","m","l">>

\* "ppt/slides/slide0.xml"
NameSlide0 == <<"p","p","t","/","s","l","i","d","e","s","/","s","l","i","d","e","0",".","x","m","l">>

\* "ppt/slides/slideX.xml"
NameSlideX == <<"p","p","t","/","s","l","i","d","e","s","/","s","l","i","d","e","X",".","x","m","l">>

\* "ppt/slides/_rels/slide1.xml.rels"
NameRels == <<"p","p","t","/","s","l","i","d","e","s","/","_","r","e","l","s","/","s","l","i","d","e","1",".","x","m","l",".","r","e","l","s">>

\* "ppt/media/image1.png"
NameImage == <<"p","p","t","/","m","e","d","i","a","/","i","m","a","g","e","1",".","p","n","g">>

\* "ppt/media/sub/image1.png"
NameSubImage == <<"p","p","t","/","m","e","d","i","a","/","s","u","b","/","i","m","a","g","e","1",".","p","n","g">>

\* "ppt/media/font1.ttf"
NameFont == <<"p","p","t","/","m","e","d","i","a","/","f","o","n","t","1",".","t","t","f">>

EntryUniverse ==
    { [name |-> NameSlide1, data |-> <<11>>],
      [name |-> NameSlide2, data |-> <<12>>],
      [name |-> NameSlide10, data |-> <<13>>],
      [name |-> NameSlide01, data |-> <<14>>],
      [name |-> NameSlide0, data |-> <<15>>],
      [name |-> NameSlideX, data |-> <<16>>],
      [name |-> NameRels, data |-> <<17>>],
      [name |-> NameImage, data |-> <<137, 80>>],
      [name |-> NameSubImage, data |-> <<255, 216>>],
      [name |-> NameFont, data |-> <<0, 1>>] }

\* the directory tables of at most MaxEntries entries, in every order
Archives ==
    { a \in UNION { [1..n -> EntryUniverse] : n \in 0..MaxEntries } :
        \A i, j \in DOMAIN a : i # j => a[i].name # a[j].name }

(***************************************************************************)
(* State.                                                                  *)
(***************************************************************************)
VARIABLES
    inputKind,      \* what inputPath holds: "valid", "notzip" or "missing"
    archive,        \* the directory table of the input package
    outDirInit,     \* outputDir when the call begins: "exists", "absent"
                    \* (and creatable) or "uncreatable"
    outDirExists,   \* outputDir exists on disk
    mediaDirExists, \* outputDir/media exists on disk
    files,          \* the regular files below outputDir: path -> content
    pc,             \* position of convertPPTXToHTML
    started,        \* the steps of convertPPTXToHTML begun so far, in order
    slidePending,   \* parsePPTX: indices whose file.async('text') is pending
    pptxData,       \* parsePPTX's result: the sorted slide descriptors
    mediaPending,   \* extractMediaFiles: indices whose write is pending
    mediaFiles,     \* extractMediaFiles' manifest
    htmlComponents, \* generateHTML5Components' result so far
    cssFiles,       \* generateCSS's result
    result,         \* the value convertPPTXToHTML resolved with, or NoResult
    thrown,         \* the errors convertPPTXToHTML rejected with, in order
    page,           \* the browser page showing index.html, or NoPage
    caller,         \* the caller of convertPPTXToHTML (HTTP handler or CLI)
    inputFileExists \* the file at inputPath exists on disk

pipelineVars == <<inputKind, archive, outDirInit, outDirExists, mediaDirExists, files, pc,
                  started, slidePending, pptxData, mediaPending, mediaFiles,
                  htmlComponents, cssFiles, result, thrown>>

vars == <<inputKind, archive, outDirInit, outDirExists, mediaDirExists, files, pc,
          started, slidePending, pptxData, mediaPending, mediaFiles,
          htmlComponents, cssFiles, result, thrown, page, caller,
          inputFileExists>>

callerVars == <<caller, inputFileExists>>

NoResult == [success |-> FALSE]
NoPage == [loaded |-> FALSE]

\* paths below outputDir
IndexPath == <<"index.html">>
CssPath == <<"presentation.css">>
SlidePath(n) == <<"slide-", n, ".html">>
MediaPath(fileName) == <<"media", fileName>>

\* a write that keeps the content of a file that already exists
WriteFile_KeepExisting(fs, path, content) ==
    [q \in DOMAIN fs \cup {path} |-> IF q \in DOMAIN fs THEN fs[q] ELSE content]

\* fs.writeFileSync(path, content): creates or overwrites
WriteFile(fs, path, content) ==
    [q \in DOMAIN fs \cup {path} |-> IF q = path THEN content ELSE fs[q]]

\* messages of the errors the steps can raise
MsgMkdir == "EACCES: permission denied, mkdir"
MsgRead == "ENOENT: no such file or directory, open"
MsgZip == "Can't find end of central directory : is this a zip file ?"
MsgNull == "Cannot read properties of null (reading '1')"
MsgWrite == "ENOSPC: no space left on device, write"

\* a catch clause that drops the cause's message
WrapError_NoMessage(message) == <<"PPTX conversion failed: ", "">>

\* the catch clause: new Error(`PPTX conversion failed: ${error.message}`)
WrapError(message) == <<"PPTX conversion failed: ", message>>

\* the order of the steps in convertPPTXToHTML
StepOrder == <<"ensureOutputDir", "parsePPTX", "extractMediaFiles",
               "generateHTML5Components", "generateCSS", "generateMainHTML">>

\* an exception or rejection reaches the catch clause, which rethrows
Fail(message) ==
    /\ pc' = "failed"
    /\ thrown' = Append(thrown, WrapError(message))

Init ==
    /\ inputKind \in {"valid", "notzip", "missing"}
    /\ archive \in Archives
    /\ (inputKind # "valid" => archive = <<>>)
    /\ outDirInit \in {"exists", "absent", "uncreatable"}
    /\ outDirExists = (outDirInit = "exists")
    /\ mediaDirExists = FALSE
    /\ files = <<>>
    /\ pc = "start"
    /\ started = <<>>
    /\ slidePending = {}
    /\ pptxData = [slides |-> <<>>]
    /\ mediaPending = {}
    /\ mediaFiles = <<>>
    /\ htmlComponents = <<>>
    /\ cssFiles = <<>>
    /\ result = NoResult
    /\ thrown = <<>>
    /\ page = NoPage
    /\ caller \in [kind : {"http", "cli"}, hasFile : BOOLEAN,
                   pc : {"entry"}, outcome : {"none"}]
    /\ (caller.kind = "cli" => caller.hasFile)
    /\ (~caller.hasFile =>
           inputKind = "missing" /\ archive = <<>> /\ outDirInit = "absent")
    /\ inputFileExists = (inputKind # "missing")

(***************************************************************************)
(* convertPPTXToHTML, step 1: ensure the output directory exists.          *)
(***************************************************************************)
\* the step without its mkdirSync
EnsureOutputDir_NoMkdir ==
    /\ pc = "start"
    /\ caller.pc = "awaiting"
    /\ started' = Append(started, "ensureOutputDir")
    /\ pc' = "parse"
    /\ UNCHANGED <<callerVars, inputKind, archive, outDirInit, outDirExists,
                   mediaDirExists, files, slidePending, pptxData,
                   mediaPending, mediaFiles, htmlComponents, cssFiles,
                   result, thrown, page>>

EnsureOutputDir ==
    /\ pc = "start"
    /\ caller.pc = "awaiting"
    /\ started' = Append(started, "ensureOutputDir")
    /\ IF ~outDirExists /\ outDirInit = "uncreatable"
       THEN /\ Fail(MsgMkdir)        \* mkdirSync throws
            /\ UNCHANGED outDirExists
       ELSE /\ outDirExists' = TRUE
            /\ pc' = "parse"
            /\ UNCHANGED thrown
    /\ UNCHANGED <<callerVars, inputKind, archive, outDirInit, mediaDirExists, files, slidePending,
                   pptxData, mediaPending, mediaFiles, htmlComponents,
                   cssFiles, result, page>>

(***************************************************************************)
(* parsePPTX.                                                              *)
(***************************************************************************)
\* the slide descriptor the callback of file.async('text') returns
SlideNumber(relativePath) == ParseInt(SlideRegexMatch(relativePath))

SlideDescriptor(entry) ==
    [number |-> SlideNumber(entry.name), content |-> entry.data,
     path |-> entry.name]

\* the entries of the archive, from position i on, that pass the slide filter,
\* in directory order
RECURSIVE SlideParts(_, _)
SlideParts(a, i) ==
    IF i > Len(a) THEN <<>>
    ELSE (IF IsSlidePart(a[i].name) THEN <<a[i]>> ELSE <<>>)
         \o SlideParts(a, i + 1)

\* slideData.sort((a, b) => a.number - b.number); Array.prototype.sort is
\* stable: elements that compare equal keep their order
InsertByNumber(sorted, x) ==
    LET k == Cardinality({i \in 1..Len(sorted) : sorted[i].number <= x.number})
    IN  SubSeq(sorted, 1, k) \o <<x>> \o SubSeq(sorted, k + 1, Len(sorted))

\* the sort left out: the descriptors stay in directory order
SortByNumber_NoSort(s) == s

RECURSIVE SortByNumber(_)
SortByNumber(s) ==
    IF s = <<>> THEN <<>>
    ELSE InsertByNumber(SortByNumber(SubSeq(s, 1, Len(s) - 1)), s[Len(s)])

\* Promise.all keeps the order of slidePromises, which is the order in which
\* zip.forEach visited the entries
SlideData ==
    LET parts == SlideParts(archive, 1)
    IN  [i \in 1..Len(parts) |-> SlideDescriptor(parts[i])]

\* readFileSync, JSZip.loadAsync and the zip.forEach that starts the reads
ParseOpen ==
    /\ pc = "parse"
    /\ started' = Append(started, "parsePPTX")
    /\ \/ /\ inputKind = "missing"
          /\ Fail(MsgRead)
          /\ UNCHANGED slidePending
       \/ /\ inputKind = "notzip"
          /\ Fail(MsgZip)
          /\ UNCHANGED slidePending
       \/ /\ inputKind = "valid"
          /\ slidePending' = {i \in 1..Len(archive) : IsSlidePart(archive[i].name)}
          /\ pc' = "slideReads"
          /\ UNCHANGED thrown
    /\ UNCHANGED <<callerVars, inputKind, archive, outDirInit, outDirExists, mediaDirExists, files,
                   pptxData, mediaPending, mediaFiles, htmlComponents,
                   cssFiles, result, page>>

\* one file.async('text') resolves and its callback runs; the callback throws
\* a TypeError when the name does not match the regular expression, which
\* rejects Promise.all and with it parsePPTX
SlideRead(i) ==
    /\ pc = "slideReads"
    /\ i \in slidePending
    /\ slidePending' = slidePending \ {i}
    /\ IF SlideRegexMatch(archive[i].name) = NoMatch
       THEN Fail(MsgNull)
       ELSE UNCHANGED <<pc, thrown>>
    /\ UNCHANGED <<callerVars, inputKind, archive, outDirInit, outDirExists, mediaDirExists, files,
                   started, pptxData, mediaPending, mediaFiles,
                   htmlComponents, cssFiles, result, page>>

\* Promise.all(slidePromises) resolves: sort and resolve
ParseJoin ==
    /\ pc = "slideReads"
    /\ slidePending = {}
    /\ pptxData' = [slides |-> SortByNumber(SlideData)]
    /\ pc' = "media"
    /\ UNCHANGED <<callerVars, inputKind, archive, outDirInit, outDirExists, mediaDirExists, files,
                   started, slidePending, mediaPending, mediaFiles,
                   htmlComponents, cssFiles, result, thrown, page>>

(***************************************************************************)
(* extractMediaFiles.                                                      *)
(***************************************************************************)
\* the manifest item pushed for an entry
MediaItem(entry) ==
    [originalPath |-> entry.name,
     fileName |-> Basename(entry.name),
     outputPath |-> MediaPath(Basename(entry.name)),
     relativePath |-> <<"media", Basename(entry.name)>>]

\* readFileSync, mkdirSync of the media directory, JSZip.loadAsync and the
\* zip.forEach that starts the reads
ExtractOpen ==
    /\ pc = "media"
    /\ started' = Append(started, "extractMediaFiles")
    /\ \/ /\ mediaDirExists' = TRUE
          /\ mediaPending' = {i \in 1..Len(archive) : IsMediaPart(archive[i].name)}
          /\ pc' = "mediaWrites"
          /\ UNCHANGED thrown
       \/ /\ ~mediaDirExists         \* mkdirSync throws in the executor
          /\ Fail(MsgMkdir)
          /\ UNCHANGED <<mediaDirExists, mediaPending>>
    /\ UNCHANGED <<callerVars, inputKind, archive, outDirInit, outDirExists, files, slidePending,
                   pptxData, mediaFiles, htmlComponents, cssFiles, result,
                   page>>

\* one file.async('nodebuffer') resolves and its callback writes the file and
\* pushes the manifest item.  A failed write rejects Promise.all and with it
\* extractMediaFiles; the reads that are still pending are not cancelled, so
\* their callbacks run, and write, after the conversion has failed.
MediaWrite(i) ==
    /\ pc \in {"mediaWrites", "failed"}
    /\ i \in mediaPending
    /\ mediaPending' = mediaPending \ {i}
    /\ \/ /\ files' = WriteFile(files, MediaPath(Basename(archive[i].name)),
                                archive[i].data)
          /\ mediaFiles' = Append(mediaFiles, MediaItem(archive[i]))
          /\ UNCHANGED <<pc, thrown>>
       \/ /\ IF pc = "mediaWrites"   \* writeFileSync throws
             THEN Fail(MsgWrite)
             ELSE UNCHANGED <<pc, thrown>>
          /\ UNCHANGED <<files, mediaFiles>>
    /\ UNCHANGED <<callerVars, inputKind, archive, outDirInit, outDirExists, mediaDirExists, started,
                   slidePending, pptxData, htmlComponents, cssFiles, result,
                   page>>

\* a resolve(mediaFiles) that does not wait for the pending writes
ExtractJoin_NoWait ==
    /\ pc = "mediaWrites"
    /\ pc' = "components"
    /\ UNCHANGED <<callerVars, inputKind, archive, outDirInit, outDirExists,
                   mediaDirExists, files, started, slidePending, pptxData,
                   mediaPending, mediaFiles, htmlComponents, cssFiles,
                   result, thrown, page>>

\* Promise.all(extractPromises) resolves: resolve(mediaFiles)
ExtractJoin ==
    /\ pc = "mediaWrites"
    /\ mediaPending = {}
    /\ pc' = "components"
    /\ UNCHANGED <<callerVars, inputKind, archive, outDirInit, outDirExists, mediaDirExists, files,
                   started, slidePending, pptxData, mediaPending, mediaFiles,
                   htmlComponents, cssFiles, result, thrown, page>>

(***************************************************************************)
(* generateHTML5Components / generateSlideHTML.                            *)
(***************************************************************************)
GenerateSlideHTML(slide) ==
    [classes |-> {"slide"},
     dataSlide |-> slide.number,
     heading |-> <<"Slide ", slide.number>>,
     paragraph |-> "Content parsed from PPTX slide XML"]

ComponentsCall ==
    /\ pc = "components"
    /\ started' = Append(started, "generateHTML5Components")
    /\ pc' = "componentsLoop"
    /\ UNCHANGED <<callerVars, inputKind, archive, outDirInit, outDirExists, mediaDirExists, files,
                   slidePending, pptxData, mediaPending, mediaFiles,
                   htmlComponents, cssFiles, result, thrown, page>>

\* one iteration of the for loop
WriteSlide ==
    /\ pc = "componentsLoop"
    /\ Len(htmlComponents) < Len(pptxData.slides)
    /\ LET slide == pptxData.slides[Len(htmlComponents) + 1]
       IN  \/ /\ files' = WriteFile(files, SlidePath(slide.number),
                                    GenerateSlideHTML(slide))
              /\ htmlComponents' =
                     Append(htmlComponents,
                            [slideNumber |-> slide.number,
                             fileName |-> SlidePath(slide.number),
                             filePath |-> SlidePath(slide.number)])
              /\ UNCHANGED <<pc, thrown>>
           \/ /\ Fail(MsgWrite)      \* writeFileSync throws
              /\ UNCHANGED <<files, htmlComponents>>
    /\ UNCHANGED <<callerVars, inputKind, archive, outDirInit, outDirExists, mediaDirExists, started,
                   slidePending, pptxData, mediaPending, mediaFiles, cssFiles,
                   result, page>>

\* the loop is over: return components
ComponentsReturn ==
    /\ pc = "componentsLoop"
    /\ Len(htmlComponents) = Len(pptxData.slides)
    /\ pc' = "css"
    /\ UNCHANGED <<callerVars, inputKind, archive, outDirInit, outDirExists, mediaDirExists, files,
                   started, slidePending, pptxData, mediaPending, mediaFiles,
                   htmlComponents, cssFiles, result, thrown, page>>

(***************************************************************************)
(* generateCSS.                                                            *)
(***************************************************************************)
CssContent == "/* PPTX to HTML5 Converter - Generated Styles */"

GenerateCSS ==
    /\ pc = "css"
    /\ started' = Append(started, "generateCSS")
    /\ \/ /\ files' = WriteFile(files, CssPath, CssContent)
          /\ cssFiles' = <<[fileName |-> CssPath, filePath |-> CssPath]>>
          /\ pc' = "main"
          /\ UNCHANGED thrown
       \/ /\ Fail(MsgWrite)
          /\ UNCHANGED <<files, cssFiles>>
    /\ UNCHANGED <<callerVars, inputKind, archive, outDirInit, outDirExists, mediaDirExists,
                   slidePending, pptxData, mediaPending, mediaFiles,
                   htmlComponents, result, page>>

(***************************************************************************)
(* generateMainHTML, and the return of convertPPTXToHTML.                  *)
(***************************************************************************)
\* the element htmlComponents.map produces for the component at array index
\* index (0-based)
SlideElement(component, index) ==
    [classes |-> IF index = 0 THEN {"slide", "active"} ELSE {"slide"},
     dataSlide |-> component.slideNumber,
     heading |-> <<"Slide ", component.slideNumber>>,
     paragraph |-> "Content from converted PPTX slide"]

\* a document whose total is the literal 1, like its current-slide text
MainHtml_TotalOne(components) ==
    [slides |-> [i \in 1..Len(components) |-> SlideElement(components[i], i - 1)],
     currentSlide |-> 1,
     totalSlides |-> 1]

\* the document: the slide elements of the container and the two spans of
\* the indicator
MainHtml(components) ==
    [slides |-> [i \in 1..Len(components) |-> SlideElement(components[i], i - 1)],
     currentSlide |-> 1,
     totalSlides |-> Len(components)]

GenerateMainHTML ==
    /\ pc = "main"
    /\ started' = Append(started, "generateMainHTML")
    /\ \/ /\ files' = WriteFile(files, IndexPath, MainHtml(htmlComponents))
          /\ result' = [success |-> TRUE,
                        slides |-> Len(pptxData.slides),
                        mediaFiles |-> Len(mediaFiles),
                        htmlFile |-> IndexPath,
                        cssFiles |-> cssFiles]
          /\ pc' = "done"
          /\ UNCHANGED thrown
       \/ /\ Fail(MsgWrite)
          /\ UNCHANGED <<files, result>>
    /\ UNCHANGED <<callerVars, inputKind, archive, outDirInit, outDirExists, mediaDirExists,
                   slidePending, pptxData, mediaPending, mediaFiles,
                   htmlComponents, cssFiles, page>>

(***************************************************************************)
(* The inline navigation script of index.html, run by a browser.           *)
(***************************************************************************)
\* classList.remove('active') on every slide, then classList.add('active') on
\* slides[index] and the updates of the indicator and of the buttons.
\* slides[index] is undefined when index is not an index of slides: reading
\* its classList throws a TypeError, and the rest of showSlide is not run.
ShowSlide(p, index) ==
    LET cleared == [i \in 1..Len(p.slides) |-> p.slides[i] \ {"active"}]
    IN  IF index + 1 \in 1..Len(p.slides)
        THEN [p EXCEPT !.slides = [cleared EXCEPT ![index + 1] = @ \cup {"active"}],
                       !.currentSlideText = index + 1,
                       !.prevDisabled = (index = 0),
                       !.nextDisabled = (index = p.totalSlides - 1)]
        ELSE [p EXCEPT !.slides = cleared, !.threw = TRUE]

\* nextSlide without its bound check
NextSlide_NoGuard(p) ==
    ShowSlide([p EXCEPT !.currentSlideIndex = @ + 1], p.currentSlideIndex + 1)

NextSlide(p) ==
    IF p.currentSlideIndex < p.totalSlides - 1
    THEN ShowSlide([p EXCEPT !.currentSlideIndex = @ + 1], p.currentSlideIndex + 1)
    ELSE p

PrevSlide(p) ==
    IF p.currentSlideIndex > 0
    THEN ShowSlide([p EXCEPT !.currentSlideIndex = @ - 1], p.currentSlideIndex - 1)
    ELSE p

\* the keydown listener
OnKeyDown(p, key) ==
    IF key = "ArrowRight" \/ key = " " THEN NextSlide(p)
    ELSE IF key = "ArrowLeft" THEN PrevSlide(p)
    ELSE p

\* the keys a user presses
Keys == {"ArrowRight", " ", "ArrowLeft", "Enter"}

\* the browser parses index.html and runs the script to its end: the
\* declarations, the totalSlides text, the listener and showSlide(0)
PageLoad ==
    /\ pc = "done"
    /\ ~page.loaded
    /\ IndexPath \in DOMAIN files
    /\ LET doc == files[IndexPath]
           \* document.querySelectorAll('.slide')
           nodes == [i \in 1..Len(doc.slides) |-> doc.slides[i].classes]
           dom == [loaded |-> TRUE,
                   slides |-> nodes,
                   dataSlides |-> [i \in 1..Len(doc.slides) |-> doc.slides[i].dataSlide],
                   currentSlideIndex |-> 0,
                   totalSlides |-> Len(nodes),
                   currentSlideText |-> doc.currentSlide,
                   totalSlidesText |-> Len(nodes),
                   prevDisabled |-> FALSE,
                   nextDisabled |-> FALSE,
                   threw |-> FALSE]
       IN  page' = ShowSlide(dom, 0)
    /\ UNCHANGED <<pipelineVars, callerVars>>

\* a click on the Next button; a disabled button dispatches no click
ClickNext ==
    /\ page.loaded
    /\ ~page.nextDisabled
    /\ page' = NextSlide(page)
    /\ UNCHANGED <<pipelineVars, callerVars>>

ClickPrev ==
    /\ page.loaded
    /\ ~page.prevDisabled
    /\ page' = PrevSlide(page)
    /\ UNCHANGED <<pipelineVars, callerVars>>

KeyDown(key) ==
    /\ page.loaded
    /\ page' = OnKeyDown(page, key)
    /\ UNCHANGED <<pipelineVars, callerVars>>

(***************************************************************************)
(* The callers of convertPPTXToHTML (src/src/index.js): the handler of     *)
(* POST /convert and the CLI mode.                                         *)
(***************************************************************************)
\* the handler up to its await: 400 when no file was uploaded
HttpEnter ==
    /\ caller.kind = "http"
    /\ caller.pc = "entry"
    /\ caller' = IF ~caller.hasFile
                 THEN [caller EXCEPT !.pc = "finished", !.outcome = "400"]
                 ELSE [caller EXCEPT !.pc = "awaiting"]
    /\ UNCHANGED <<pipelineVars, page, inputFileExists>>

\* the await returned: unlink the upload and answer with the result
HttpSuccess ==
    /\ caller.kind = "http"
    /\ caller.pc = "awaiting"
    /\ pc = "done"
    /\ inputFileExists' = FALSE
    /\ caller' = [caller EXCEPT !.pc = "finished", !.outcome = "200"]
    /\ UNCHANGED <<pipelineVars, page>>

\* a catch clause that answers without the cleanup
HttpCatch_NoCleanup ==
    /\ caller.kind = "http"
    /\ caller.pc = "awaiting"
    /\ pc = "failed"
    /\ caller' = [caller EXCEPT !.pc = "finished", !.outcome = "500"]
    /\ UNCHANGED <<pipelineVars, page, inputFileExists>>

\* the await threw: unlink the upload if it exists and answer 500
HttpCatch ==
    /\ caller.kind = "http"
    /\ caller.pc = "awaiting"
    /\ pc = "failed"
    /\ inputFileExists' = IF inputFileExists THEN FALSE ELSE inputFileExists
    /\ caller' = [caller EXCEPT !.pc = "finished", !.outcome = "500"]
    /\ UNCHANGED <<pipelineVars, page>>

\* the CLI branch up to its await: exit(1) when the input does not exist
CliEnter ==
    /\ caller.kind = "cli"
    /\ caller.pc = "entry"
    /\ caller' = IF ~inputFileExists
                 THEN [caller EXCEPT !.pc = "finished", !.outcome = "exit 1"]
                 ELSE [caller EXCEPT !.pc = "awaiting"]
    /\ UNCHANGED <<pipelineVars, page, inputFileExists>>

\* the await returned: the result is logged
CliSuccess ==
    /\ caller.kind = "cli"
    /\ caller.pc = "awaiting"
    /\ pc = "done"
    /\ caller' = [caller EXCEPT !.pc = "finished", !.outcome = "exit 0"]
    /\ UNCHANGED <<pipelineVars, page, inputFileExists>>

\* the await threw: the message is logged and the process exits with 1
CliCatch ==
    /\ caller.kind = "cli"
    /\ caller.pc = "awaiting"
    /\ pc = "failed"
    /\ caller' = [caller EXCEPT !.pc = "finished", !.outcome = "exit 1"]
    /\ UNCHANGED <<pipelineVars, page, inputFileExists>>

(***************************************************************************)
(* Specification.                                                          *)
(***************************************************************************)
Next ==
    \/ EnsureOutputDir
    \/ ParseOpen
    \/ \E i \in DOMAIN archive : SlideRead(i)
    \/ ParseJoin
    \/ ExtractOpen
    \/ \E i \in DOMAIN archive : MediaWrite(i)
    \/ ExtractJoin
    \/ ComponentsCall
    \/ WriteSlide
    \/ ComponentsReturn
    \/ GenerateCSS
    \/ GenerateMainHTML
    \/ PageLoad
    \/ ClickNext
    \/ ClickPrev
    \/ \E key \in Keys : KeyDown(key)
    \/ HttpEnter
    \/ HttpSuccess
    \/ HttpCatch
    \/ CliEnter
    \/ CliSuccess
    \/ CliCatch

Spec == Init /\ [][Next]_vars

(***************************************************************************)
(* Properties.                                                             *)
(***************************************************************************)
\* indices of the archive entries that pass the slide filter / media filter
SlideIdx == {i \in DOMAIN archive : IsSlidePart(archive[i].name)}
MediaIdx == {i \in DOMAIN archive : IsMediaPart(archive[i].name)}

\* the name carries an ordinal: "slide", digits, ".xml" occurs in it
HasOrdinal(name) == \E i \in 1..Len(name) : MatchesAt(name, i)

\* the decimal value of the digits of the leftmost occurrence
OrdinalOf(name) ==
    LET i == CHOOSE j \in 1..Len(name) :
                 MatchesAt(name, j) /\ \A k \in 1..(j - 1) : ~MatchesAt(name, k)
    IN  ParseInt(SubSeq(name, i + 5, DigitRunEnd(name, i + 5)))

\* every slide part carries an ordinal, the ordinals are positive and
\* pairwise distinct
DistinctPositiveOrdinals ==
    /\ \A i \in SlideIdx : HasOrdinal(archive[i].name)
    /\ \A i \in SlideIdx : OrdinalOf(archive[i].name) >= 1
    /\ \A i, j \in SlideIdx :
           i # j => OrdinalOf(archive[i].name) # OrdinalOf(archive[j].name)

\* C1: for a package whose N slide parts carry distinct positive ordinals, in
\* any directory order, the index.html of a successful conversion holds
\* exactly N slide elements, one per slide part, in ascending ordinal order,
\* and the element at position 0 is the only one marked active.
C1_SlidesAscendingFirstActive ==
    (pc = "done" /\ DistinctPositiveOrdinals) =>
        /\ IndexPath \in DOMAIN files
        /\ LET els == files[IndexPath].slides
           IN  /\ Len(els) = Cardinality(SlideIdx)
               /\ {els[k].dataSlide : k \in 1..Len(els)}
                      = {OrdinalOf(archive[i].name) : i \in SlideIdx}
               /\ \A k \in 1..(Len(els) - 1) :
                      els[k].dataSlide < els[k + 1].dataSlide
               /\ \A k \in 1..Len(els) :
                      ("active" \in els[k].classes) <=> (k = 1)

\* a successful conversion of three slide parts stored in descending order
C1_Witness ==
    /\ pc = "done"
    /\ DistinctPositiveOrdinals
    /\ Cardinality(SlideIdx) = 3
    /\ \A i, j \in SlideIdx :
           i < j => OrdinalOf(archive[i].name) > OrdinalOf(archive[j].name)

\* extractMediaFiles has resolved: the next step was reached
ExtractResolved == pc = "components" \/ Len(started) >= 4

\* the bytes of the entry of the archive that has this name
EntryData(name) ==
    (CHOOSE e \in {archive[i] : i \in DOMAIN archive} : e.name = name).data

\* C2 as stated: the manifest has one item per media entry, and every listed
\* destination exists and holds the bytes of that item's own source entry.
C2_Original ==
    ExtractResolved =>
        /\ Len(mediaFiles) = Cardinality(MediaIdx)
        /\ \A k \in 1..Len(mediaFiles) :
              /\ mediaFiles[k].outputPath \in DOMAIN files
              /\ files[mediaFiles[k].outputPath]
                     = EntryData(mediaFiles[k].originalPath)

\* C2, amended: the manifest has one item per media entry and every listed
\* destination exists; a destination holds the bytes of the source entry of
\* the last manifest item that names it, hence of the item's own source entry
\* whenever no other media entry has the same base file name.
C2_ManifestAndLastWriteWins ==
    ExtractResolved =>
        /\ Len(mediaFiles) = Cardinality(MediaIdx)
        /\ {mediaFiles[k].originalPath : k \in 1..Len(mediaFiles)}
               = {archive[i].name : i \in MediaIdx}
        /\ \A k \in 1..Len(mediaFiles) :
              LET same == {m \in 1..Len(mediaFiles) :
                               mediaFiles[m].outputPath = mediaFiles[k].outputPath}
                  last == CHOOSE m \in same : \A n \in same : n <= m
              IN  /\ mediaFiles[k].outputPath \in DOMAIN files
                  /\ files[mediaFiles[k].outputPath]
                         = EntryData(mediaFiles[last].originalPath)
                  /\ (same = {k} =>
                         files[mediaFiles[k].outputPath]
                             = EntryData(mediaFiles[k].originalPath))

\* extraction resolved for a package with two media entries of the same base
\* file name and a third one of its own
C2_Witness ==
    /\ ExtractResolved
    /\ Len(mediaFiles) = 3
    /\ \E k, m \in 1..Len(mediaFiles) :
           k # m /\ mediaFiles[k].outputPath = mediaFiles[m].outputPath

\* the message of the error that ends a call that failed in this step
OriginalCause(step) ==
    IF step = "ensureOutputDir" THEN {MsgMkdir}
    ELSE IF step = "parsePPTX"
         THEN (IF inputKind = "missing" THEN {MsgRead}
               ELSE IF inputKind = "notzip" THEN {MsgZip}
               ELSE {MsgNull})
    ELSE IF step = "extractMediaFiles" THEN {MsgMkdir, MsgWrite}
    ELSE {MsgWrite}

\* C3: when a step of convertPPTXToHTML fails, the call ends with exactly one
\* error, whose message carries the message of the original cause; no step
\* runs twice, and after the failure no later step begins or writes (only the
\* media writes already issued by the failed extraction can still land).
C3_SingleWrappedErrorNoLaterStep ==
    /\ [](/\ Len(thrown) <= 1
          /\ (pc = "failed") <=> (Len(thrown) = 1)
          /\ \A i, j \in 1..Len(started) : i # j => started[i] # started[j]
          /\ pc = "failed" =>
                /\ result = NoResult
                /\ Len(thrown[1]) = 2
                /\ thrown[1][1] = "PPTX conversion failed: "
                /\ thrown[1][2] \in OriginalCause(started[Len(started)]))
    /\ [][pc = "failed" =>
              /\ pc' = "failed"
              /\ started' = started
              /\ thrown' = thrown
              /\ result' = result
              /\ UNCHANGED <<slidePending, pptxData, htmlComponents, cssFiles>>
              /\ \A path \in DOMAIN files' :
                     path \in DOMAIN files \/ path[1] = "media"]_vars

\* a media write failed while another write of the same step was pending
C3_Witness ==
    /\ pc = "failed"
    /\ started[Len(started)] = "extractMediaFiles"
    /\ thrown = <<WrapError(MsgWrite)>>
    /\ mediaPending # {}

\* C4: for input bytes that are not an archive and an output directory that
\* does not exist yet, the call ends with the archive error, the output
\* directory exists afterwards, and it holds no generated file and no media
\* directory.
C4_InvalidArchiveLeavesEmptyDir ==
    (inputKind = "notzip" /\ outDirInit = "absent") =>
        /\ pc \in {"start", "parse", "failed"}
        /\ result = NoResult
        /\ DOMAIN files = {}
        /\ ~mediaDirExists
        /\ pc # "start" => outDirExists
        /\ pc = "failed" => thrown = <<WrapError(MsgZip)>>

C4_Witness ==
    /\ inputKind = "notzip"
    /\ outDirInit = "absent"
    /\ pc = "failed"
    /\ outDirExists

\* some entry passes the slide filter and carries no ordinal
HasMalformedSlideKey == \E i \in SlideIdx : ~HasOrdinal(archive[i].name)

\* C5: when an entry that passes the slide filter carries no ordinal, the
\* conversion does not get past slide discovery: it fails with the error of
\* the failed extraction, no descriptor list is handed on, and no index.html
\* is written for the other slides.
C5_NoSilentSkip ==
    HasMalformedSlideKey =>
        /\ pc \in {"start", "parse", "slideReads", "failed"}
        /\ pc = "slideReads" =>
               \E i \in slidePending : ~HasOrdinal(archive[i].name)
        /\ (pc = "failed" /\ Len(started) = 2) => thrown = <<WrapError(MsgNull)>>
        /\ pptxData.slides = <<>>
        /\ htmlComponents = <<>>
        /\ result = NoResult
        /\ IndexPath \notin DOMAIN files

\* a package with two well-formed slide parts and a malformed one has failed
C5_Witness ==
    /\ HasMalformedSlideKey
    /\ Cardinality({i \in SlideIdx : HasOrdinal(archive[i].name)}) = 2
    /\ pc = "failed"
    /\ thrown = <<WrapError(MsgNull)>>

\* two slide parts carry the same ordinal
HasDuplicateOrdinals ==
    /\ \A i \in SlideIdx : HasOrdinal(archive[i].name)
    /\ \E i, j \in SlideIdx :
           i # j /\ OrdinalOf(archive[i].name) = OrdinalOf(archive[j].name)

\* C6 as stated: the ordinals of the descriptors handed to rendering are
\* pairwise distinct and at least 1, and a package with a repeated ordinal
\* ends in an error instead of being converted.
C6_Original ==
    /\ \A k \in 1..Len(pptxData.slides) : pptxData.slides[k].number >= 1
    /\ \A k, m \in 1..Len(pptxData.slides) :
           k # m => pptxData.slides[k].number # pptxData.slides[m].number
    /\ HasDuplicateOrdinals =>
           /\ pc \in {"start", "parse", "slideReads", "failed"}
           /\ result = NoResult

\* the slide elements that carry the active class
ActiveSet(p) == {i \in 1..Len(p.slides) : "active" \in p.slides[i]}

\* C7 as stated: on every loaded page, after any sequence of clicks and key
\* presses, the current index lies in [0, total-1] and the slide at the
\* current index is the only one that carries the active class.
C7_Original ==
    page.loaded =>
        /\ page.currentSlideIndex \in 0..(page.totalSlides - 1)
        /\ ActiveSet(page) = {page.currentSlideIndex + 1}

\* C7, amended: the same on every loaded page that has at least one slide.
C7_IndexInRangeOneActive ==
    (page.loaded /\ page.totalSlides >= 1) =>
        /\ ~page.threw
        /\ page.currentSlideIndex \in 0..(page.totalSlides - 1)
        /\ ActiveSet(page) = {page.currentSlideIndex + 1}
        /\ page.currentSlideText = page.currentSlideIndex + 1

\* the last of three slides is shown
C7_Witness ==
    /\ page.loaded
    /\ page.totalSlides = 3
    /\ page.currentSlideIndex = 2

\* C8 as stated: on every loaded page Previous is disabled exactly at index 0
\* and Next exactly at the last index, and a next event at the last index and
\* a previous event at index 0 change nothing.
C8_Original ==
    page.loaded =>
        /\ page.prevDisabled <=> (page.currentSlideIndex = 0)
        /\ page.nextDisabled <=> (page.currentSlideIndex = page.totalSlides - 1)
        /\ page.currentSlideIndex = page.totalSlides - 1 =>
               /\ NextSlide(page) = page
               /\ OnKeyDown(page, "ArrowRight") = page
               /\ OnKeyDown(page, " ") = page
        /\ page.currentSlideIndex = 0 =>
               /\ PrevSlide(page) = page
               /\ OnKeyDown(page, "ArrowLeft") = page

\* C9: a package without slide parts converts with slides: 0 unless a write
\* or mkdir fails; its index.html has no slide element and its indicator's
\* total reads 0, in the file and after the script has run.
C9_ZeroSlides ==
    (inputKind = "valid" /\ SlideIdx = {}) =>
        /\ pc = "done" =>
               /\ result.success
               /\ result.slides = 0
               /\ files[IndexPath].slides = <<>>
               /\ files[IndexPath].totalSlides = 0
        /\ pc = "failed" => thrown[1][2] \in {MsgMkdir, MsgWrite}
        /\ page.loaded =>
               /\ page.slides = <<>>
               /\ page.totalSlidesText = 0

\* a package with media and no slide was converted and its page loaded
C9_Witness ==
    /\ inputKind = "valid"
    /\ SlideIdx = {}
    /\ MediaIdx # {}
    /\ pc = "done"
    /\ result.mediaFiles = Cardinality(MediaIdx)
    /\ page.loaded

\* every media entry, every slide part and the stylesheet have their file
AllMediaWritten ==
    /\ mediaPending = {}
    /\ \A i \in MediaIdx : MediaPath(Basename(archive[i].name)) \in DOMAIN files

AllSlidesWritten ==
    /\ slidePending = {}
    /\ \A i \in SlideIdx : SlidePath(OrdinalOf(archive[i].name)) \in DOMAIN files

\* C10: the steps begin in the order of StepOrder; a step begins only when
\* no read or write of an earlier step is pending and the earlier step has
\* handled every slide part and media entry; so slide fragments exist only
\* once all media files do, the stylesheet only once all fragments do, and
\* index.html only once media files, fragments and stylesheet all exist.
C10_StepsJoinBeforeNext ==
    /\ [](/\ started = SubSeq(StepOrder, 1, Len(started))
          /\ (\E path \in DOMAIN files : path[1] = "slide-") => AllMediaWritten
          /\ CssPath \in DOMAIN files => (AllMediaWritten /\ AllSlidesWritten)
          /\ IndexPath \in DOMAIN files =>
                (AllMediaWritten /\ AllSlidesWritten /\ CssPath \in DOMAIN files))
    /\ [][started' # started =>
              /\ slidePending = {}
              /\ mediaPending = {}
              /\ Len(started) >= 2 => Len(pptxData.slides) = Cardinality(SlideIdx)
              /\ Len(started) >= 3 => Len(mediaFiles) = Cardinality(MediaIdx)
              /\ Len(started) >= 4 => Len(htmlComponents) = Len(pptxData.slides)
              /\ Len(started) >= 5 => CssPath \in DOMAIN files]_vars

\* index.html was written for a package with two media entries and a slide
C10_Witness ==
    /\ IndexPath \in DOMAIN files
    /\ Cardinality(MediaIdx) = 2
    /\ Cardinality(SlideIdx) = 1

\* the fragment files below outputDir
FragmentPaths == {path \in DOMAIN files : path[1] = "slide-"}

\* C11 as stated: after a successful conversion every slide descriptor has a
\* fragment file of its own, the content of slide-<ordinal>.html is determined
\* by the ordinal, and the element embedded for that descriptor in index.html
\* repeats the fragment: the same ordinal tag, heading and placeholder
\* paragraph.
C11_Original ==
    pc = "done" =>
        /\ Cardinality(FragmentPaths) = Len(pptxData.slides)
        /\ \A k \in 1..Len(pptxData.slides) :
              LET n == pptxData.slides[k].number
                  embedded == files[IndexPath].slides[k]
              IN  /\ SlidePath(n) \in DOMAIN files
                  /\ files[SlidePath(n)].dataSlide = n
                  /\ files[SlidePath(n)].heading = <<"Slide ", n>>
                  /\ embedded.dataSlide = files[SlidePath(n)].dataSlide
                  /\ embedded.heading = files[SlidePath(n)].heading
                  /\ embedded.paragraph = files[SlidePath(n)].paragraph

\* the caller called convertPPTXToHTML and has finished after it settled
CallerDone == caller.pc = "finished" /\ pc \in {"done", "failed"}

\* C12 as stated: once convertPPTXToHTML has returned or thrown, its caller,
\* the POST /convert handler or the CLI mode, deletes the input file, so a
\* caller that has finished leaves no input file behind.
C12_Original == CallerDone => ~inputFileExists

\* C12, amended: the POST /convert handler deletes the uploaded file once
\* convertPPTXToHTML has returned or thrown, on both paths; the CLI mode
\* never deletes its input file; no caller deletes the file before the
\* pipeline has finished, and only a caller at its await deletes it.
C12_HttpDeletesCliKeeps ==
    /\ []((CallerDone /\ caller.kind = "http") => ~inputFileExists)
    /\ [](caller.kind = "cli" => (inputFileExists <=> inputKind # "missing"))
    /\ [][inputFileExists' # inputFileExists =>
              /\ pc \in {"done", "failed"}
              /\ caller.kind = "http"
              /\ caller.pc = "awaiting"
              /\ ~inputFileExists'
              /\ UNCHANGED pipelineVars]_vars

\* the handler answered 500 after a failed conversion of an existing upload
C12_Witness ==
    /\ caller.kind = "http"
    /\ caller.outcome = "500"
    /\ inputKind # "missing"
    /\ pc = "failed"
    /\ ~inputFileExists

====
